---- MODULE Spec2Model ----
(***************************************************************************)
(* A model of the BookWorm REST backend: the review routes with the rating *)
(* aggregator, the shelf tracker (setShelf / updateProgress), book         *)
(* deletion and the follow toggle.  The document store is modelled as sets *)
(* of documents carrying their _id; a handler is one atomic action in the  *)
(* sequential specifications and one action per await in the interleaved   *)
(* ones.                                                                   *)
(***************************************************************************)
EXTENDS Integers, Sequences, FiniteSets, TLC

\* ---------------------------------------------------------------- bounds
\* Requests served in one behaviour of each specification.
MaxReviewRequests == 5
MaxShelfRequests == 4
MaxFollowRequests == 4
\* Requests served in one behaviour when requests interleave.
MaxShelfInFlight == 2
MaxFollowInFlight == 3
\* Requests served in one behaviour of the book deletion specification.
MaxCascadeRequests == 4
\* genre requests, in flight at most two at a time
MaxGenreInFlight == 3
\* book and genre requests, in flight at most two at a time
MaxCatalogInFlight == 3
\* create-review requests, in flight at most two at a time
MaxReviewInFlight == 3
\* recommendation requests
MaxRecommendRequests == 1
\* activity feed requests
MaxFeedRequests == 1
\* review requests with a store that can fail
MaxFaultRequests == 4
\* shelf and statistics requests
MaxStatsRequests == 3
\* review requests of users and the moderating admin
MaxModerationRequests == 4

\* ---------------------------------------------------------------- inputs
UserIds == {"u1", "u2", "u3"}
\* the users whose shelf, progress and review requests are served
Readers == {"u1", "u2"}
\* req.params.id of POST /users/:id/follow: the users and an id of no user
FollowInputs == UserIds \cup {"u0"}
BookIds == {"b1", "b2"}
Shelves == {"wantToRead", "currentlyReading", "read"}
\* an optional field that is absent (a number or a date that is undefined)
Undefined == -1
\* req.body.shelf: the three shelves and one value the route rejects
ShelfInputs == Shelves \cup {"didNotFinish"}
\* req.body of PUT /:id/progress: pagesRead and percentage are both optional
ProgressInputs ==
  { [pagesRead |-> Undefined, percentage |-> 40],
    [pagesRead |-> Undefined, percentage |-> 100],
    [pagesRead |-> 7, percentage |-> Undefined],
    [pagesRead |-> 9, percentage |-> 120],
    [pagesRead |-> Undefined, percentage |-> -5] }
\* req.body of POST /reviews: rating and the length of the comment
ReviewInputs ==
  { [rating |-> 2, commentLen |-> 10],
    [rating |-> 3, commentLen |-> 12],
    [rating |-> 5, commentLen |-> 10],
    [rating |-> 4, commentLen |-> 9],
    [rating |-> 6, commentLen |-> 10] }
StatusInputs == {"approved", "rejected", "pending"}

VARIABLES
  books,      \* Book collection: _id -> document
  reviews,    \* Review collection: set of documents
  userBooks,  \* UserBook collection: set of documents
  users,      \* User collection: _id -> document (the follow lists)
  clock,      \* number of requests received so far; new Date() reads it
  nextId,     \* next ObjectId handed out to a new document
  last,       \* the last request served and its response
  procs,      \* the requests in flight: what each has loaded and where it is
  genres      \* Genre collection: set of documents

vars == <<books, reviews, userBooks, users, clock, nextId, last, procs, genres>>

\* ---------------------------------------------------------------- helpers
Max(a, b) == IF a >= b THEN a ELSE b
Min(a, b) == IF a <= b THEN a ELSE b

RECURSIVE SumRatings(_)
SumRatings(S) ==
  IF S = {} THEN 0
  ELSE LET r == CHOOSE x \in S : TRUE IN r.rating + SumRatings(S \ {r})

\* Math.round(x * 10) / 10 of x = total / n, kept in tenths:
\* Math.round(y) = floor(y + 1/2), and floor(10*total/n + 1/2) is the quotient below.
RoundToTenths(total, n) == (20 * total + n) \div (2 * n)

\* A document of the Book collection as the schema defaults it.
NewBook ==
  [ averageRating |-> 0, ratingsCount |-> 0,
    shelvedCount |-> [s \in Shelves |-> 0] ]

\* new Book({ ...req.body }): the defaults and the genre reference
NewBookOfGenre(genreId) == [genre |-> genreId] @@ NewBook

\* The genres the catalog starts with; a name is the sequence of its characters.
InitialGenres ==
  { [_id |-> 101, name |-> <<"f">>], [_id |-> 102, name |-> <<"m">>] }
\* The genre each book of the starting catalog was created with.
InitialGenreOf == [b \in BookIds |-> IF b = "b1" THEN 101 ELSE 102]

\* What the last request was and how it was answered; doc is the document the
\* response body carries, when it carries one.
Response(op, status) == [op |-> op, status |-> status]

\* ---------------------------------------------------------------- reviews
\* The status a Review document gets when none is given.
DefaultReviewStatus == "pending"

ApprovedReviews(revs, bookId) ==
  {r \in revs : r.book = bookId /\ r.status = "approved"}

\* updateBookRating(bookId): Book.findByIdAndUpdate of the recomputed fields;
\* it changes nothing when the book is gone.
updateBookRating(bks, revs, bookId) ==
  LET found == ApprovedReviews(revs, bookId) IN
  IF bookId \notin DOMAIN bks THEN bks
  ELSE IF Cardinality(found) = 0
  THEN [bks EXCEPT ![bookId].averageRating = 0, ![bookId].ratingsCount = 0]
  ELSE [bks EXCEPT
          ![bookId].averageRating =
              RoundToTenths(SumRatings(found), Cardinality(found)),
          ![bookId].ratingsCount = Cardinality(found)]

\* POST /reviews
CreateReview(u, b, in) ==
  /\ clock' = clock + 1
  /\ UNCHANGED <<users, procs, genres>>
  /\ IF ~(in.rating \in 1..5 /\ in.commentLen >= 10)
     THEN /\ last' = Response("createReview", 400)
          /\ UNCHANGED <<books, reviews, userBooks, nextId>>
     ELSE IF b \notin DOMAIN books
     THEN /\ last' = Response("createReview", 404)
          /\ UNCHANGED <<books, reviews, userBooks, nextId>>
     ELSE IF \E r \in reviews : r.user = u /\ r.book = b
     THEN /\ last' = Response("createReview", 400)
          /\ UNCHANGED <<books, reviews, userBooks, nextId>>
     ELSE /\ reviews' = reviews \cup
                { [ _id |-> nextId, user |-> u, book |-> b,
                    rating |-> in.rating, status |-> DefaultReviewStatus,
                    createdAt |-> clock ] }
          /\ nextId' = nextId + 1
          /\ last' = Response("createReview", 201)
          /\ UNCHANGED <<books, userBooks>>

\* The status route recomputing the rating after a rejection as well.
UpdateReviewStatusAlwaysRecomputes(id, status) ==
  /\ clock' = clock + 1
  /\ UNCHANGED <<users, procs, genres>>
  /\ IF status \notin {"approved", "rejected"}
     THEN /\ last' = Response("updateReviewStatus", 400)
          /\ UNCHANGED <<books, reviews, userBooks, nextId>>
     ELSE IF ~(\E r \in reviews : r._id = id)
     THEN /\ last' = Response("updateReviewStatus", 404)
          /\ UNCHANGED <<books, reviews, userBooks, nextId>>
     ELSE LET old == CHOOSE r \in reviews : r._id = id
              revs == (reviews \ {old}) \cup {[old EXCEPT !.status = status]}
          IN /\ reviews' = revs
             /\ books' = updateBookRating(books, revs, old.book)
             /\ last' = Response("updateReviewStatus", 200)
             /\ UNCHANGED <<userBooks, nextId>>

\* PUT /reviews/:id/status
UpdateReviewStatus(id, status) ==
  /\ clock' = clock + 1
  /\ UNCHANGED <<users, procs, genres>>
  /\ IF status \notin {"approved", "rejected"}
     THEN /\ last' = Response("updateReviewStatus", 400)
          /\ UNCHANGED <<books, reviews, userBooks, nextId>>
     ELSE IF ~(\E r \in reviews : r._id = id)
     THEN /\ last' = Response("updateReviewStatus", 404)
          /\ UNCHANGED <<books, reviews, userBooks, nextId>>
     ELSE LET old == CHOOSE r \in reviews : r._id = id
              revs == (reviews \ {old}) \cup {[old EXCEPT !.status = status]}
          IN /\ reviews' = revs
             /\ books' = IF status = "approved"
                         THEN updateBookRating(books, revs, old.book)
                         ELSE books
             /\ last' = Response("updateReviewStatus", 200)
             /\ UNCHANGED <<userBooks, nextId>>

\* DELETE /reviews/:id
DeleteReview(id) ==
  /\ clock' = clock + 1
  /\ UNCHANGED <<users, procs, genres>>
  /\ IF ~(\E r \in reviews : r._id = id)
     THEN /\ last' = Response("deleteReview", 404)
          /\ UNCHANGED <<books, reviews, userBooks, nextId>>
     ELSE LET old == CHOOSE r \in reviews : r._id = id
              revs == reviews \ {old}
          IN /\ reviews' = revs
             /\ books' = updateBookRating(books, revs, old.book)
             /\ last' = Response("deleteReview", 200)
             /\ UNCHANGED <<userBooks, nextId>>

\* ---------------------------------------------------------------- reviews, store errors
\* where the store fails during updateBookRating: nowhere, in Review.find, or
\* in Book.findByIdAndUpdate
Faults == {"none", "find", "update"}

\* updateBookRating without its try/catch: the store's error reaches the caller
updateBookRatingRethrows(bks, revs, bookId, fault) ==
  [ books |-> IF fault = "none" THEN updateBookRating(bks, revs, bookId) ELSE bks,
    thrown |-> fault # "none" ]

\* updateBookRating with a store that can fail: the catch logs the error and
\* nothing is thrown; the Book is written only if both calls went through
updateBookRatingOrLog(bks, revs, bookId, fault) ==
  [ books |-> IF fault = "none" THEN updateBookRating(bks, revs, bookId) ELSE bks,
    thrown |-> FALSE ]

ReviewResponse(op, status, id, recompute) ==
  [op |-> op, status |-> status, review |-> id, recompute |-> recompute]

\* what became of the recompute of a request
RecomputeOutcome(fault) == IF fault = "none" THEN "done" ELSE "failed"

\* PUT /reviews/:id/status with a store that can fail in the recompute
UpdateReviewStatusWithFault(id, status, fault) ==
  /\ clock' = clock + 1
  /\ UNCHANGED <<users, procs, genres, userBooks, nextId>>
  /\ IF status \notin {"approved", "rejected"}
     THEN /\ last' = ReviewResponse("updateReviewStatus", 400, id, "skipped")
          /\ UNCHANGED <<books, reviews>>
     ELSE IF ~(\E r \in reviews : r._id = id)
     THEN /\ last' = ReviewResponse("updateReviewStatus", 404, id, "skipped")
          /\ UNCHANGED <<books, reviews>>
     ELSE LET old == CHOOSE r \in reviews : r._id = id
              revs == (reviews \ {old}) \cup {[old EXCEPT !.status = status]}
              recomputed == updateBookRatingOrLog(books, revs, old.book, fault)
          IN /\ reviews' = revs
             /\ IF status = "approved"
                THEN /\ books' = recomputed.books
                     /\ last' = ReviewResponse("updateReviewStatus",
                                   IF recomputed.thrown THEN 500 ELSE 200,
                                   id, RecomputeOutcome(fault))
                ELSE /\ books' = books
                     /\ last' = ReviewResponse("updateReviewStatus", 200, id, "skipped")

\* DELETE /reviews/:id with a store that can fail in the recompute
DeleteReviewWithFault(id, fault) ==
  /\ clock' = clock + 1
  /\ UNCHANGED <<users, procs, genres, userBooks, nextId>>
  /\ IF ~(\E r \in reviews : r._id = id)
     THEN /\ last' = ReviewResponse("deleteReview", 404, id, "skipped")
          /\ UNCHANGED <<books, reviews>>
     ELSE LET old == CHOOSE r \in reviews : r._id = id
              revs == reviews \ {old}
              recomputed == updateBookRatingOrLog(books, revs, old.book, fault)
          IN /\ reviews' = revs
             /\ books' = recomputed.books
             /\ last' = ReviewResponse("deleteReview",
                           IF recomputed.thrown THEN 500 ELSE 200,
                           id, RecomputeOutcome(fault))

\* ---------------------------------------------------------------- shelves
\* Decrement without the floor at 0.
DecrementUnfloored(count) == count - 1

\* Math.max(0, count - 1)
Decrement(count) == Max(0, count - 1)

\* UserBook.findOne({user, book}): the stored entries of that pair
EntriesOf(ubs, u, b) == {ub \in ubs : ub.user = u /\ ub.book = b}

\* The timestamps and progress an existing entry gets when its shelf is set.
ShelveExisting(ub, shelf, now) ==
  IF shelf = "currentlyReading" /\ ub.startedReading = Undefined
  THEN [ub EXCEPT !.shelf = shelf, !.startedReading = now]
  ELSE IF shelf = "read" /\ ub.finishedReading = Undefined
  THEN [ub EXCEPT !.shelf = shelf, !.finishedReading = now, !.percentage = 100]
  ELSE [ub EXCEPT !.shelf = shelf]

\* new UserBook({...}) of the create branch
NewUserBook(id, u, b, shelf, now) ==
  [ _id |-> id, user |-> u, book |-> b, shelf |-> shelf,
    pagesRead |-> 0,
    percentage |-> IF shelf = "read" THEN 100 ELSE 0,
    startedReading |-> IF shelf = "currentlyReading" THEN now ELSE Undefined,
    finishedReading |-> IF shelf = "read" THEN now ELSE Undefined ]

\* The counters of a book after an entry moved from oldShelf to shelf.
MoveShelvedCount(count, oldShelf, shelf) ==
  LET dec == [count EXCEPT ![oldShelf] = Decrement(@)]
  IN [dec EXCEPT ![shelf] = @ + 1]

\* The counters of a book after a progress update moved an entry to read.
FinishShelvedCount(count) ==
  [count EXCEPT !.currentlyReading = Decrement(@), !.read = @ + 1]

\* ProgressExisting without the assignment of finishedReading.
ProgressExistingNoFinish(ub, in, now) ==
  LET paged == IF in.pagesRead # Undefined
               THEN [ub EXCEPT !.pagesRead = in.pagesRead] ELSE ub
      clamped == IF in.percentage # Undefined
                 THEN [paged EXCEPT !.percentage = Min(100, Max(0, in.percentage))]
                 ELSE paged
  IN IF in.percentage # Undefined /\ in.percentage >= 100 /\ ub.shelf # "read"
     THEN [clamped EXCEPT !.shelf = "read"]
     ELSE clamped

\* ProgressExisting without the test that the entry is not on read yet.
ProgressExistingAlwaysMoves(ub, in, now) ==
  LET paged == IF in.pagesRead # Undefined
               THEN [ub EXCEPT !.pagesRead = in.pagesRead] ELSE ub
      clamped == IF in.percentage # Undefined
                 THEN [paged EXCEPT !.percentage = Min(100, Max(0, in.percentage))]
                 ELSE paged
  IN IF in.percentage # Undefined /\ in.percentage >= 100
     THEN [clamped EXCEPT !.shelf = "read", !.finishedReading = now]
     ELSE clamped

\* The entry after PUT /:id/progress assigned the fields the body carries.
ProgressExisting(ub, in, now) ==
  LET paged == IF in.pagesRead # Undefined
               THEN [ub EXCEPT !.pagesRead = in.pagesRead] ELSE ub
      clamped == IF in.percentage # Undefined
                 THEN [paged EXCEPT !.percentage = Min(100, Max(0, in.percentage))]
                 ELSE paged
  IN IF in.percentage # Undefined /\ in.percentage >= 100 /\ ub.shelf # "read"
     THEN [clamped EXCEPT !.shelf = "read", !.finishedReading = now]
     ELSE clamped

ShelfResponse(op, status, u, b, in) ==
  [op |-> op, status |-> status, user |-> u, book |-> b, in |-> in]

\* POST /books/:id/shelf
SetShelf(u, b, shelf) ==
  /\ clock' = clock + 1
  /\ UNCHANGED <<users, procs, genres>>
  /\ UNCHANGED reviews
  /\ IF shelf \notin Shelves
     THEN /\ last' = ShelfResponse("setShelf", 400, u, b, shelf)
          /\ UNCHANGED <<books, userBooks, nextId>>
     ELSE IF b \notin DOMAIN books
     THEN /\ last' = ShelfResponse("setShelf", 404, u, b, shelf)
          /\ UNCHANGED <<books, userBooks, nextId>>
     ELSE IF EntriesOf(userBooks, u, b) # {}
     THEN LET userBook == CHOOSE ub \in EntriesOf(userBooks, u, b) : TRUE
              oldShelf == userBook.shelf
          IN /\ userBooks' = (userBooks \ {userBook})
                               \cup {ShelveExisting(userBook, shelf, clock)}
             /\ books' = IF oldShelf # shelf
                         THEN [books EXCEPT ![b].shelvedCount =
                                 MoveShelvedCount(@, oldShelf, shelf)]
                         ELSE books
             /\ last' = ShelfResponse("setShelf", 200, u, b, shelf)
             /\ UNCHANGED nextId
     ELSE /\ userBooks' = userBooks \cup {NewUserBook(nextId, u, b, shelf, clock)}
          /\ nextId' = nextId + 1
          /\ books' = [books EXCEPT ![b].shelvedCount[shelf] = @ + 1]
          /\ last' = ShelfResponse("setShelf", 200, u, b, shelf)

\* PUT /books/:id/progress
UpdateProgress(u, b, in) ==
  /\ clock' = clock + 1
  /\ UNCHANGED <<users, procs, genres>>
  /\ UNCHANGED <<genres, reviews, nextId>>
  /\ IF EntriesOf(userBooks, u, b) = {}
     THEN /\ last' = ShelfResponse("updateProgress", 404, u, b, in)
          /\ UNCHANGED <<books, userBooks>>
     ELSE LET userBook == CHOOSE ub \in EntriesOf(userBooks, u, b) : TRUE
              updated == ProgressExisting(userBook, in, clock)
              moved == updated.shelf # userBook.shelf
          IN IF moved /\ b \notin DOMAIN books
             THEN \* Book.findById gave null: reading book.shelvedCount throws
                  /\ last' = ShelfResponse("updateProgress", 500, u, b, in)
                  /\ UNCHANGED <<books, userBooks>>
             ELSE /\ books' = IF moved
                              THEN [books EXCEPT ![b].shelvedCount =
                                      FinishShelvedCount(@)]
                              ELSE books
                  /\ userBooks' = (userBooks \ {userBook}) \cup {updated}
                  /\ last' = ShelfResponse("updateProgress", 200, u, b, in)

\* ---------------------------------------------------------------- follow
\* A document of the User collection: both lists start empty.
NewUser == [following |-> <<>>, followers |-> <<>>]

\* MongooseArray.includes(id)
Includes(list, id) == \E i \in 1..Len(list) : list[i] = id
\* MongooseArray.pull(id): every occurrence goes
Pull(list, id) == SelectSeq(list, LAMBDA x : x # id)
\* MongooseArray.push(id)
Push(list, id) == Append(list, id)

\* FollowToggle whose unfollow forgets the target's followers list.
FollowToggleOneSided(us, currentUserId, targetUserId) ==
  IF Includes(us[currentUserId].following, targetUserId)
  THEN [us EXCEPT ![currentUserId].following = Pull(@, targetUserId)]
  ELSE [us EXCEPT ![currentUserId].following = Push(@, targetUserId),
                  ![targetUserId].followers = Push(@, currentUserId)]

\* The User collection after POST /users/:id/follow by currentUserId, both
\* saves done.
FollowToggle(us, currentUserId, targetUserId) ==
  IF Includes(us[currentUserId].following, targetUserId)
  THEN [us EXCEPT ![currentUserId].following = Pull(@, targetUserId),
                  ![targetUserId].followers = Pull(@, currentUserId)]
  ELSE [us EXCEPT ![currentUserId].following = Push(@, targetUserId),
                  ![targetUserId].followers = Push(@, currentUserId)]

FollowResponse(status, currentUserId, targetUserId, isFollowing) ==
  [ op |-> "follow", status |-> status, user |-> currentUserId,
    target |-> targetUserId, isFollowing |-> isFollowing ]

\* POST /users/:id/follow
Follow(currentUserId, targetUserId) ==
  /\ clock' = clock + 1
  /\ UNCHANGED <<genres, books, reviews, userBooks, nextId, procs>>
  /\ IF targetUserId = currentUserId
     THEN /\ last' = FollowResponse(400, currentUserId, targetUserId, FALSE)
          /\ UNCHANGED users
     ELSE IF targetUserId \notin DOMAIN users
     THEN /\ last' = FollowResponse(404, currentUserId, targetUserId, FALSE)
          /\ UNCHANGED users
     ELSE /\ users' = FollowToggle(users, currentUserId, targetUserId)
          /\ last' = FollowResponse(200, currentUserId, targetUserId,
                       ~Includes(users[currentUserId].following, targetUserId))

\* ---------------------------------------------------------------- requests in flight
\* Two requests can be in flight; an arriving request takes the first free slot.
Procs == {1, 2}
Idle == [pc |-> "idle"]
IsFree(p) == procs[p] = Idle /\ \A q \in Procs : procs[q] = Idle => p <= q

\* findOne / findById that found nothing
NoDoc == [_id |-> 0]

\* document.save() of a loaded document sends the paths whose value changed
\* since it was loaded, and the store sets only those.
SaveModified(stored, loaded, local) ==
  [f \in DOMAIN stored |-> IF local[f] # loaded[f] THEN local[f] ELSE stored[f]]

\* The store without the unique index: every insert passes.
UniqueIndexOff(ubs, doc) == TRUE

\* userBookSchema.index({ user: 1, book: 1 }, { unique: true })
UniqueIndexAllows(ubs, doc) == EntriesOf(ubs, doc.user, doc.book) = {}

Respond(p, response) ==
  /\ procs' = [procs EXCEPT ![p] = Idle]
  /\ last' = response

\* --- POST /books/:id/shelf, one action per await
\* the request arrives; await Book.findById
ShelfFindBook(p, u, b, shelf) ==
  /\ IsFree(p)
  /\ clock' = clock + 1
  /\ UNCHANGED <<genres, books, reviews, userBooks, users, nextId>>
  /\ IF shelf \notin Shelves
     THEN Respond(p, ShelfResponse("setShelf", 400, u, b, shelf))
     ELSE IF b \notin DOMAIN books
     THEN Respond(p, ShelfResponse("setShelf", 404, u, b, shelf))
     ELSE /\ procs' = [procs EXCEPT ![p] =
                 [ pc |-> "shelfFindEntry", user |-> u, book |-> b,
                   shelf |-> shelf, bookLoaded |-> books[b] ]]
          /\ UNCHANGED last

\* await UserBook.findOne, then the entry is changed or built in memory
ShelfFindEntry(p) ==
  /\ procs[p].pc = "shelfFindEntry"
  /\ UNCHANGED <<genres, books, reviews, userBooks, users, clock, last>>
  /\ LET r == procs[p]
         found == EntriesOf(userBooks, r.user, r.book)
     IN IF found # {}
        THEN /\ \E userBook \in found :
                  procs' = [procs EXCEPT ![p] =
                    [ pc |-> "shelfSaveEntry", user |-> r.user, book |-> r.book,
                      shelf |-> r.shelf, bookLoaded |-> r.bookLoaded,
                      loaded |-> userBook,
                      entry |-> ShelveExisting(userBook, r.shelf, clock) ]]
             /\ UNCHANGED nextId
        ELSE /\ procs' = [procs EXCEPT ![p] =
                    [ pc |-> "shelfSaveEntry", user |-> r.user, book |-> r.book,
                      shelf |-> r.shelf, bookLoaded |-> r.bookLoaded,
                      loaded |-> NoDoc,
                      entry |-> NewUserBook(nextId, r.user, r.book, r.shelf, clock) ]]
             /\ nextId' = nextId + 1

\* await userBook.save(), then the counters are changed in memory
ShelfSaveEntry(p) ==
  /\ procs[p].pc = "shelfSaveEntry"
  /\ UNCHANGED <<genres, books, reviews, users, clock, nextId>>
  /\ LET r == procs[p]
         in == r.shelf
     IN IF r.loaded = NoDoc
        THEN IF UniqueIndexAllows(userBooks, r.entry)
             THEN /\ userBooks' = userBooks \cup {r.entry}
                  /\ procs' = [procs EXCEPT ![p] =
                       [ pc |-> "shelfSaveBook", user |-> r.user, book |-> r.book,
                         shelf |-> r.shelf, bookLoaded |-> r.bookLoaded,
                         bookLocal |-> [r.bookLoaded EXCEPT
                                          !.shelvedCount[r.shelf] = @ + 1] ]]
                  /\ UNCHANGED last
             ELSE \* duplicate key: the save throws
                  /\ UNCHANGED userBooks
                  /\ Respond(p, ShelfResponse("setShelf", 500, r.user, r.book, in))
        ELSE /\ userBooks' =
                  { IF ub._id = r.loaded._id
                    THEN SaveModified(ub, r.loaded, r.entry) ELSE ub :
                    ub \in userBooks }
             /\ IF r.loaded.shelf # r.shelf
                THEN /\ procs' = [procs EXCEPT ![p] =
                          [ pc |-> "shelfSaveBook", user |-> r.user, book |-> r.book,
                            shelf |-> r.shelf, bookLoaded |-> r.bookLoaded,
                            bookLocal |-> [r.bookLoaded EXCEPT !.shelvedCount =
                               MoveShelvedCount(@, r.loaded.shelf, r.shelf)] ]]
                     /\ UNCHANGED last
                ELSE Respond(p, ShelfResponse("setShelf", 200, r.user, r.book, in))

\* The counters saved as atomic increments ($inc) of the stored values.
SaveShelvedCountAtomic(bks, b, loaded, local) ==
  IF b \in DOMAIN bks
  THEN [bks EXCEPT ![b].shelvedCount =
          [s \in Shelves |-> @[s] + local.shelvedCount[s] - loaded.shelvedCount[s]]]
  ELSE bks

\* book.save() of the counters changed in memory
SaveShelvedCount(bks, b, loaded, local) ==
  IF b \in DOMAIN bks
  THEN [bks EXCEPT ![b].shelvedCount =
          SaveModified(@, loaded.shelvedCount, local.shelvedCount)]
  ELSE bks

\* await book.save(), then the response
ShelfSaveBook(p) ==
  /\ procs[p].pc = "shelfSaveBook"
  /\ UNCHANGED <<genres, reviews, userBooks, users, clock, nextId>>
  /\ LET r == procs[p]
     IN /\ books' = SaveShelvedCount(books, r.book, r.bookLoaded, r.bookLocal)
        /\ Respond(p, ShelfResponse("setShelf", 200, r.user, r.book, r.shelf))

\* --- PUT /books/:id/progress, one action per await
\* the request arrives; await UserBook.findOne, then the entry is changed in memory
ProgressFindEntry(p, u, b, in) ==
  /\ IsFree(p)
  /\ clock' = clock + 1
  /\ UNCHANGED <<genres, books, reviews, userBooks, users, nextId>>
  /\ LET found == EntriesOf(userBooks, u, b)
     IN IF found = {}
        THEN Respond(p, ShelfResponse("updateProgress", 404, u, b, in))
        ELSE /\ \E userBook \in found :
                  LET updated == ProgressExisting(userBook, in, clock)
                  IN procs' = [procs EXCEPT ![p] =
                       [ pc |-> IF updated.shelf # userBook.shelf
                                THEN "progressFindBook" ELSE "progressSaveEntry",
                         user |-> u, book |-> b, in |-> in,
                         loaded |-> userBook, entry |-> updated ]]
             /\ UNCHANGED last

\* await Book.findById, then the counters are changed in memory
ProgressFindBook(p) ==
  /\ procs[p].pc = "progressFindBook"
  /\ UNCHANGED <<genres, books, reviews, userBooks, users, clock, nextId>>
  /\ LET r == procs[p]
     IN IF r.book \notin DOMAIN books
        THEN Respond(p, ShelfResponse("updateProgress", 500, r.user, r.book, r.in))
        ELSE /\ procs' = [procs EXCEPT ![p] =
                  [ pc |-> "progressSaveBook", user |-> r.user, book |-> r.book,
                    in |-> r.in, loaded |-> r.loaded, entry |-> r.entry,
                    bookLoaded |-> books[r.book],
                    bookLocal |-> [books[r.book] EXCEPT !.shelvedCount =
                                     FinishShelvedCount(@)] ]]
             /\ UNCHANGED last

\* await book.save()
ProgressSaveBook(p) ==
  /\ procs[p].pc = "progressSaveBook"
  /\ UNCHANGED <<genres, reviews, userBooks, users, clock, nextId, last>>
  /\ LET r == procs[p]
     IN /\ books' = SaveShelvedCount(books, r.book, r.bookLoaded, r.bookLocal)
        /\ procs' = [procs EXCEPT ![p] =
             [ pc |-> "progressSaveEntry", user |-> r.user, book |-> r.book,
               in |-> r.in, loaded |-> r.loaded, entry |-> r.entry ]]

\* await userBook.save(), then the response
ProgressSaveEntry(p) ==
  /\ procs[p].pc = "progressSaveEntry"
  /\ UNCHANGED <<genres, books, reviews, users, clock, nextId>>
  /\ LET r == procs[p]
     IN /\ userBooks' =
             { IF ub._id = r.loaded._id
               THEN SaveModified(ub, r.loaded, r.entry) ELSE ub :
               ub \in userBooks }
        /\ Respond(p, ShelfResponse("updateProgress", 200, r.user, r.book, r.in))

\* --- POST /users/:id/follow, one action per await
\* the request arrives; await User.findById(targetUserId)
FollowFindTarget(p, currentUserId, targetUserId) ==
  /\ IsFree(p)
  /\ clock' = clock + 1
  /\ UNCHANGED <<genres, books, reviews, userBooks, users, nextId>>
  /\ IF targetUserId = currentUserId
     THEN Respond(p, FollowResponse(400, currentUserId, targetUserId, FALSE))
     ELSE IF targetUserId \notin DOMAIN users
     THEN Respond(p, FollowResponse(404, currentUserId, targetUserId, FALSE))
     ELSE /\ procs' = [procs EXCEPT ![p] =
                 [ pc |-> "followFindCurrent", user |-> currentUserId,
                   target |-> targetUserId ]]
          /\ UNCHANGED last

\* await User.findById(currentUserId), then both lists are changed in memory
FollowFindCurrent(p) ==
  /\ procs[p].pc = "followFindCurrent"
  /\ UNCHANGED <<genres, books, reviews, userBooks, users, clock, nextId, last>>
  /\ LET r == procs[p]
     IN procs' = [procs EXCEPT ![p] =
          [ pc |-> "followSaveCurrent", user |-> r.user, target |-> r.target,
            isFollowing |-> Includes(users[r.user].following, r.target) ]]

\* The push or pull a save sends for a list changed in memory.
SaveList(list, id, isFollowing) ==
  IF isFollowing THEN Pull(list, id) ELSE Push(list, id)

\* await currentUser.save()
FollowSaveCurrent(p) ==
  /\ procs[p].pc = "followSaveCurrent"
  /\ UNCHANGED <<genres, books, reviews, userBooks, clock, nextId, last>>
  /\ LET r == procs[p]
     IN /\ users' = [users EXCEPT ![r.user].following =
                       SaveList(@, r.target, r.isFollowing)]
        /\ procs' = [procs EXCEPT ![p] =
             [ pc |-> "followSaveTarget", user |-> r.user, target |-> r.target,
               isFollowing |-> r.isFollowing ]]

\* await targetUser.save(), then the response
FollowSaveTarget(p) ==
  /\ procs[p].pc = "followSaveTarget"
  /\ UNCHANGED <<genres, books, reviews, userBooks, clock, nextId>>
  /\ LET r == procs[p]
     IN /\ users' = [users EXCEPT ![r.target].followers =
                       SaveList(@, r.user, r.isFollowing)]
        /\ Respond(p, FollowResponse(200, r.user, r.target, ~r.isFollowing))

\* a save rejects (store error): the catch block answers 500
FollowSaveFails(p) ==
  /\ procs[p].pc \in {"followSaveCurrent", "followSaveTarget"}
  /\ UNCHANGED <<genres, books, reviews, userBooks, users, clock, nextId>>
  /\ Respond(p, FollowResponse(500, procs[p].user, procs[p].target, FALSE))


\* ---------------------------------------------------------------- books
BookResponse(op, status, b) == [op |-> op, status |-> status, book |-> b]

\* DeleteBook without Review.deleteMany.
DeleteBookKeepsReviews(b) ==
  /\ clock' = clock + 1
  /\ UNCHANGED <<users, procs, genres>>
  /\ IF b \notin DOMAIN books
     THEN /\ last' = BookResponse("deleteBook", 404, b)
          /\ UNCHANGED <<books, reviews, userBooks, nextId>>
     ELSE /\ userBooks' = {ub \in userBooks : ub.book # b}
          /\ books' = [x \in DOMAIN books \ {b} |-> books[x]]
          /\ last' = BookResponse("deleteBook", 200, b)
          /\ UNCHANGED <<reviews, nextId>>

\* DELETE /books/:id
DeleteBook(b) ==
  /\ clock' = clock + 1
  /\ UNCHANGED <<users, procs, genres>>
  /\ IF b \notin DOMAIN books
     THEN /\ last' = BookResponse("deleteBook", 404, b)
          /\ UNCHANGED <<books, reviews, userBooks, nextId>>
     ELSE /\ userBooks' = {ub \in userBooks : ub.book # b}
          /\ reviews' = {r \in reviews : r.book # b}
          /\ books' = [x \in DOMAIN books \ {b} |-> books[x]]
          /\ last' = BookResponse("deleteBook", 200, b)
          /\ UNCHANGED nextId

\* ---------------------------------------------------------------- genres
\* Genre names are sequences of characters; "+" is the regular expression
\* quantifier, the others are letters.
GenreNameInputs ==
  { <<>>, <<"F">>, <<"s">>, <<"S">>, <<"a", "+">>, <<"A", "+">>, <<"+">> }

\* the 'i' flag: letters compare by their lower-case form
Lower(c) == CASE c = "F" -> "f" [] c = "A" -> "a" [] c = "S" -> "s" [] OTHER -> c

IsQuantifier(c) == c = "+"

\* new RegExp(`^${name}$`, 'i') throws "Nothing to repeat" when a quantifier
\* has no atom before it.
CompilesToRegExp(name) ==
  \A i \in 1..Len(name) :
    IsQuantifier(name[i]) => i > 1 /\ ~IsQuantifier(name[i - 1])

\* /^name$/i tested on str: pattern position i against string position j
RECURSIVE RegExpMatchesFrom(_, _, _, _)
RegExpMatchesFrom(name, i, str, j) ==
  IF i > Len(name)
  THEN j > Len(str)
  ELSE IF i < Len(name) /\ IsQuantifier(name[i + 1])
       THEN \E k \in (j + 1)..(Len(str) + 1) :
              /\ \A x \in j..(k - 1) : Lower(str[x]) = Lower(name[i])
              /\ RegExpMatchesFrom(name, i + 2, str, k)
       ELSE /\ j <= Len(str)
            /\ Lower(str[j]) = Lower(name[i])
            /\ RegExpMatchesFrom(name, i + 1, str, j + 1)

RegExpMatches(name, str) == RegExpMatchesFrom(name, 1, str, 1)

\* Genre.findOne({ name: { $regex }, _id: { $ne: exceptId } }) found one
ExistingGenre(gs, name, exceptId) ==
  \E g \in gs : g._id # exceptId /\ RegExpMatches(name, g.name)

\* The Genre collection's unique index on name compares names exactly.
GenreIndexAllows(gs, id, name) == \A g \in gs : g._id # id => g.name # name

GenreResponse(op, status, id, name) ==
  [op |-> op, status |-> status, genre |-> id, name |-> name]

\* the checks of create and update before the store is written:
\* 400 validation, 500 RegExp throws, 400 already exists, 0 go on
GenreNameCheck(gs, name, exceptId) ==
  IF Len(name) < 1 THEN 400
  ELSE IF ~CompilesToRegExp(name) THEN 500
  ELSE IF ExistingGenre(gs, name, exceptId) THEN 400
  ELSE 0

\* Genre.findByIdAndUpdate(id, { name, description })
RenameGenre(gs, id, name) ==
  {IF g._id = id THEN [g EXCEPT !.name = name] ELSE g : g \in gs}

\* Book.countDocuments({ genre: id })
BooksWithGenre(bks, id) == Cardinality({b \in DOMAIN bks : bks[b].genre = id})

\* --- POST /genres and PUT /genres/:id, one action per await
\* the request arrives; validation, new RegExp, await Genre.findOne
GenreCreateFind(p, name) ==
  /\ IsFree(p)
  /\ clock' = clock + 1
  /\ UNCHANGED <<books, reviews, userBooks, users, genres, nextId>>
  /\ LET check == GenreNameCheck(genres, name, 0)
     IN IF check # 0
        THEN Respond(p, GenreResponse("createGenre", check, 0, name))
        ELSE /\ procs' = [procs EXCEPT ![p] = [pc |-> "genreSave", name |-> name]]
             /\ UNCHANGED last

\* await genre.save(), then the response
GenreCreateSave(p) ==
  /\ procs[p].pc = "genreSave"
  /\ UNCHANGED <<books, reviews, userBooks, users, clock>>
  /\ LET name == procs[p].name
     IN IF GenreIndexAllows(genres, nextId, name)
        THEN /\ genres' = genres \cup {[_id |-> nextId, name |-> name]}
             /\ nextId' = nextId + 1
             /\ Respond(p, GenreResponse("createGenre", 201, nextId, name))
        ELSE /\ UNCHANGED <<genres, nextId>>
             /\ Respond(p, GenreResponse("createGenre", 500, 0, name))

\* the request arrives; validation, new RegExp, await Genre.findOne
GenreUpdateFind(p, id, name) ==
  /\ IsFree(p)
  /\ clock' = clock + 1
  /\ UNCHANGED <<books, reviews, userBooks, users, genres, nextId>>
  /\ LET check == GenreNameCheck(genres, name, id)
     IN IF check # 0
        THEN Respond(p, GenreResponse("updateGenre", check, id, name))
        ELSE /\ procs' = [procs EXCEPT ![p] =
                  [pc |-> "genreUpdate", id |-> id, name |-> name]]
             /\ UNCHANGED last

\* await Genre.findByIdAndUpdate, then the response
GenreUpdateSave(p) ==
  /\ procs[p].pc = "genreUpdate"
  /\ UNCHANGED <<books, reviews, userBooks, users, clock, nextId>>
  /\ LET id == procs[p].id
         name == procs[p].name
     IN IF \A g \in genres : g._id # id
        THEN /\ UNCHANGED genres
             /\ Respond(p, GenreResponse("updateGenre", 404, id, name))
        ELSE IF ~GenreIndexAllows(genres, id, name)
        THEN /\ UNCHANGED genres
             /\ Respond(p, GenreResponse("updateGenre", 500, id, name))
        ELSE /\ genres' = RenameGenre(genres, id, name)
             /\ Respond(p, GenreResponse("updateGenre", 200, id, name))

\* ---------------------------------------------------------------- catalog
\* ids of the books created by POST /books, in the order they are handed out
NewBookIds == <<"b3", "b4", "b5", "b6">>

\* the _id of the next new Book
NewBookId(bks) ==
  NewBookIds[CHOOSE i \in 1..Len(NewBookIds) :
               /\ NewBookIds[i] \notin DOMAIN bks
               /\ \A j \in 1..(i - 1) : NewBookIds[j] \in DOMAIN bks]

\* Genre.findById(id) found one
GenreFound(gs, id) == \E g \in gs : g._id = id

\* --- POST /books, one action per await
\* the request arrives; validation, await Genre.findById
BookCreateFindGenre(p, genreId) ==
  /\ IsFree(p)
  /\ clock' = clock + 1
  /\ UNCHANGED <<books, reviews, userBooks, users, genres, nextId>>
  /\ IF genreId = Undefined
     THEN Respond(p, BookResponse("createBook", 400, "b0"))
     ELSE IF ~GenreFound(genres, genreId)
     THEN Respond(p, BookResponse("createBook", 400, "b0"))
     ELSE /\ procs' = [procs EXCEPT ![p] = [pc |-> "bookUpload", genre |-> genreId]]
          /\ UNCHANGED last

\* await uploadToCloudinary, which resolves or rejects
BookCreateUpload(p, uploaded) ==
  /\ procs[p].pc = "bookUpload"
  /\ UNCHANGED <<books, reviews, userBooks, users, genres, clock, nextId>>
  /\ IF uploaded
     THEN /\ procs' = [procs EXCEPT ![p].pc = "bookSave"]
          /\ UNCHANGED last
     ELSE Respond(p, BookResponse("createBook", 500, "b0"))

\* await book.save(), then the response
BookCreateSave(p) ==
  /\ procs[p].pc = "bookSave"
  /\ UNCHANGED <<reviews, userBooks, users, genres, clock, nextId>>
  /\ LET id == NewBookId(books)
     IN /\ books' = (id :> NewBookOfGenre(procs[p].genre)) @@ books
        /\ Respond(p, BookResponse("createBook", 201, id))

\* --- PUT /books/:id, one action per await
\* the request arrives; await Book.findById
BookUpdateFind(p, b, genreId) ==
  /\ IsFree(p)
  /\ clock' = clock + 1
  /\ UNCHANGED <<books, reviews, userBooks, users, genres, nextId>>
  /\ IF b \notin DOMAIN books
     THEN Respond(p, BookResponse("updateBook", 404, b))
     ELSE /\ procs' = [procs EXCEPT ![p] =
               [ pc |-> IF genreId = Undefined THEN "bookUpdate" ELSE "bookUpdateGenre",
                 book |-> b, genre |-> genreId ]]
          /\ UNCHANGED last

\* if (updateData.genre): await Genre.findById
BookUpdateFindGenre(p) ==
  /\ procs[p].pc = "bookUpdateGenre"
  /\ UNCHANGED <<books, reviews, userBooks, users, genres, clock, nextId>>
  /\ IF GenreFound(genres, procs[p].genre)
     THEN /\ procs' = [procs EXCEPT ![p].pc = "bookUpdate"]
          /\ UNCHANGED last
     ELSE Respond(p, BookResponse("updateBook", 400, procs[p].book))

\* await Book.findByIdAndUpdate, then the response
BookUpdateSave(p) ==
  /\ procs[p].pc = "bookUpdate"
  /\ UNCHANGED <<reviews, userBooks, users, genres, clock, nextId>>
  /\ LET r == procs[p]
     IN /\ books' = IF r.book \in DOMAIN books /\ r.genre # Undefined
                    THEN [books EXCEPT ![r.book].genre = r.genre]
                    ELSE books
        /\ Respond(p, BookResponse("updateBook", 200, r.book))

\* --- DELETE /genres/:id, one action per await
\* the request arrives; await Genre.findById
GenreDeleteFind(p, id) ==
  /\ IsFree(p)
  /\ clock' = clock + 1
  /\ UNCHANGED <<books, reviews, userBooks, users, genres, nextId>>
  /\ IF GenreFound(genres, id)
     THEN /\ procs' = [procs EXCEPT ![p] = [pc |-> "genreCount", id |-> id]]
          /\ UNCHANGED last
     ELSE Respond(p, GenreResponse("deleteGenre", 404, id, <<>>))

\* await Book.countDocuments
GenreDeleteCount(p) ==
  /\ procs[p].pc = "genreCount"
  /\ UNCHANGED <<books, reviews, userBooks, users, genres, clock, nextId>>
  /\ IF BooksWithGenre(books, procs[p].id) > 0
     THEN Respond(p, GenreResponse("deleteGenre", 400, procs[p].id, <<>>))
     ELSE /\ procs' = [procs EXCEPT ![p].pc = "genreRemove"]
          /\ UNCHANGED last

\* await Genre.findByIdAndDelete, then the response
GenreDeleteRemove(p) ==
  /\ procs[p].pc = "genreRemove"
  /\ UNCHANGED <<books, reviews, userBooks, users, clock, nextId>>
  /\ genres' = {g \in genres : g._id # procs[p].id}
  /\ Respond(p, GenreResponse("deleteGenre", 200, procs[p].id, <<>>))

\* ---------------------------------------------------------------- reviews, in flight
\* The Review collection as the data model describes it: user ref, book ref,
\* rating, comment, status, and no index that rejects an insert.
ReviewStoreAllows(revs, doc) == TRUE

\* --- POST /reviews, one action per await
\* the request arrives; validation, await Book.findById
ReviewFindBook(p, u, b, in) ==
  /\ IsFree(p)
  /\ clock' = clock + 1
  /\ UNCHANGED <<books, reviews, userBooks, users, genres, nextId>>
  /\ IF ~(in.rating \in 1..5 /\ in.commentLen >= 10)
     THEN Respond(p, Response("createReview", 400))
     ELSE IF b \notin DOMAIN books
     THEN Respond(p, Response("createReview", 404))
     ELSE /\ procs' = [procs EXCEPT ![p] =
               [ pc |-> "reviewFindExisting", user |-> u, book |-> b,
                 rating |-> in.rating, now |-> clock ]]
          /\ UNCHANGED last

\* await Review.findOne({ user, book })
ReviewFindExisting(p) ==
  /\ procs[p].pc = "reviewFindExisting"
  /\ UNCHANGED <<books, reviews, userBooks, users, genres, clock, nextId>>
  /\ IF \E r \in reviews : r.user = procs[p].user /\ r.book = procs[p].book
     THEN Respond(p, Response("createReview", 400))
     ELSE /\ procs' = [procs EXCEPT ![p].pc = "reviewSave"]
          /\ UNCHANGED last

\* await review.save(), then the response
ReviewSave(p) ==
  /\ procs[p].pc = "reviewSave"
  /\ UNCHANGED <<books, userBooks, users, genres, clock>>
  /\ LET r == procs[p]
         doc == [ _id |-> nextId, user |-> r.user, book |-> r.book,
                  rating |-> r.rating, status |-> DefaultReviewStatus,
                  createdAt |-> r.now ]
     IN IF ReviewStoreAllows(reviews, doc)
        THEN /\ reviews' = reviews \cup {doc}
             /\ nextId' = nextId + 1
             /\ Respond(p, Response("createReview", 201))
        ELSE /\ UNCHANGED <<reviews, nextId>>
             /\ Respond(p, Response("createReview", 500))

\* ---------------------------------------------------------------- recommendations
\* .limit(12) and the test recommendations.length < 12
RecommendationLimit == 12
\* averageRating: { $gte: 3.5 }, in tenths
MinRecommendedRating == 35
\* userBooks.length >= 3
MinReadBooks == 3
\* .slice(0, 3)
MaxFavoriteGenres == 3

Range(seq) == {seq[i] : i \in 1..Len(seq)}

\* .limit(n)
Limit(seq, n) == SubSeq(seq, 1, Min(n, Len(seq)))

\* a find without sort returns the documents in the order of their _id
NaturalOrder(docs) ==
  LET rank == [d \in docs |-> Cardinality({e \in docs : e._id < d._id})]
  IN [i \in 1..Cardinality(docs) |-> CHOOSE d \in docs : rank[d] = i - 1]

\* .sort({ averageRating: -1, ratingsCount: -1 }): a comes before b; books equal
\* in both keys come in the store's order, ascending or descending by _id
SortsBefore(bks, a, b, ascending) ==
  \/ bks[a].averageRating > bks[b].averageRating
  \/ /\ bks[a].averageRating = bks[b].averageRating
     /\ \/ bks[a].ratingsCount > bks[b].ratingsCount
        \/ /\ bks[a].ratingsCount = bks[b].ratingsCount
           /\ IF ascending THEN a < b ELSE a > b

\* Book.find(...).sort({ averageRating: -1, ratingsCount: -1 }).limit(n) over
\* the books of ids
FindSorted(bks, ids, ascending, n) ==
  LET rank == [a \in ids |->
                 Cardinality({b \in ids : SortsBefore(bks, b, a, ascending)})]
      sorted == [i \in 1..Cardinality(ids) |-> CHOOSE a \in ids : rank[a] = i - 1]
  IN Limit(sorted, n)

\* UserBook.find({ user, shelf: 'read' })
ReadEntries(ubs, u) == {ub \in ubs : ub.user = u /\ ub.shelf = "read"}

\* genreCounts, its keys in the order they were first set, sorted by count
\* descending (a stable sort), the first three
favoriteGenres(bks, found) ==
  LET genreOf(i) == bks[found[i].book].genre
      keys == {genreOf(i) : i \in 1..Len(found)}
      genreCounts == [g \in keys |->
                        Cardinality({i \in 1..Len(found) : genreOf(i) = g})]
      firstSet == [g \in keys |->
                     CHOOSE i \in 1..Len(found) :
                       genreOf(i) = g /\ \A j \in 1..(i - 1) : genreOf(j) # g]
      rank == [g \in keys |->
                 Cardinality({h \in keys :
                    \/ genreCounts[h] > genreCounts[g]
                    \/ genreCounts[h] = genreCounts[g] /\ firstSet[h] < firstSet[g]})]
  IN {g \in keys : rank[g] < MaxFavoriteGenres}

\* the first Book.find without averageRating: { $gte: 3.5 }
FavoriteQueryAnyRating(bks, favorite, readBookIds) ==
  {b \in DOMAIN bks : bks[b].genre \in favorite /\ b \notin readBookIds}

\* the first Book.find: favourite genres, not read, rated at least 3.5
FavoriteQuery(bks, favorite, readBookIds) ==
  {b \in DOMAIN bks :
     /\ bks[b].genre \in favorite
     /\ b \notin readBookIds
     /\ bks[b].averageRating >= MinRecommendedRating}

\* the second Book.find without the read books in $nin
AdditionalQueryKeepsRead(bks, readBookIds, chosen) ==
  {b \in DOMAIN bks : b \notin chosen}

\* the second Book.find: not read and not chosen
AdditionalQuery(bks, readBookIds, chosen) ==
  {b \in DOMAIN bks : b \notin readBookIds \cup chosen}

RecommendationResponse(status, u, favorite, personalized, recommendations) ==
  [ op |-> "recommendations", status |-> status, user |-> u,
    favoriteGenres |-> favorite, personalized |-> personalized,
    recommendations |-> recommendations ]

\* GET /books/recommendations/for-me
GetRecommendations(u, ascending) ==
  /\ clock' = clock + 1
  /\ UNCHANGED <<books, reviews, userBooks, users, genres, nextId, procs>>
  /\ LET found == NaturalOrder(ReadEntries(userBooks, u))
     IN IF \E ub \in Range(found) : ub.book \notin DOMAIN books
        THEN \* populate('book') left null: reading book.genre or book._id throws
             last' = RecommendationResponse(500, u, {}, <<>>, <<>>)
        ELSE LET readBookIds == {ub.book : ub \in Range(found)}
                 favorite == IF Len(found) >= MinReadBooks
                             THEN favoriteGenres(books, found) ELSE {}
                 personalized ==
                   IF Len(found) >= MinReadBooks
                   THEN FindSorted(books, FavoriteQuery(books, favorite, readBookIds),
                                   ascending, RecommendationLimit)
                   ELSE <<>>
                 additionalBooks ==
                   IF Len(personalized) < RecommendationLimit
                   THEN FindSorted(books,
                          AdditionalQuery(books, readBookIds, Range(personalized)),
                          ascending, RecommendationLimit - Len(personalized))
                   ELSE <<>>
             IN last' = RecommendationResponse(200, u, favorite, personalized,
                                               personalized \o additionalBooks)

\* --- catalogs and read shelves the recommendations are computed over
RecGenreIds == <<101, 102, 103, 104>>
RecGenres == { [_id |-> RecGenreIds[i], name |-> <<"g">>] : i \in 1..4 }

\* Per genre: the number of books rated 3.5 or more, the number rated less,
\* and how many of the genre's books u1 has read.
CatalogShapes ==
  { s \in [1..4 -> [hi : {1, 5}, lo : {0, 1}, read : 0..2]] :
      s[4].hi = 1 /\ s[4].lo = 0 }

\* the book ids of genre i: the j-th book of the genre is 10 * i + j
ShapeBookIds(s) == {10 * i + j : i \in 1..4, j \in 1..6} \cap
                   UNION {(10 * i + 1)..(10 * i + s[i].hi + s[i].lo) : i \in 1..4}

ShapeBook(s, b) ==
  LET i == b \div 10
      j == b % 10
  IN [ NewBookOfGenre(RecGenreIds[i]) EXCEPT
         !.averageRating = IF j <= s[i].hi THEN 35 + 5 * ((i + j) % 3) ELSE 34,
         !.ratingsCount = 1 + (j % 2) ]

\* u1 has read the last books of each genre, and has one more book on the
\* wantToRead shelf; u2 has read the first two books of every genre that has
\* five books rated 3.5 or more.
ShapeUserBooks(s) ==
  { NewUserBook(100 + b, "u1", b, "read", 0) :
      b \in {c \in ShapeBookIds(s) :
               (c % 10) > s[c \div 10].hi + s[c \div 10].lo - s[c \div 10].read} }
  \cup { NewUserBook(100 + b, "u1", b, "wantToRead", 0) : b \in {11} \cap ShapeBookIds(s) }
  \cup { NewUserBook(200 + b, "u2", b, "read", 0) :
           b \in {c \in ShapeBookIds(s) : (c % 10) <= 2 /\ s[c \div 10].hi = 5} }

InitRecommend ==
  \E s \in CatalogShapes :
    /\ books = [b \in ShapeBookIds(s) |-> ShapeBook(s, b)]
    /\ genres = RecGenres
    /\ userBooks = ShapeUserBooks(s)
    /\ reviews = {}
    /\ clock = 0
    /\ nextId = 1
    /\ last = Response("none", 0)
    /\ users = [u \in UserIds |-> NewUser]
    /\ procs = [p \in Procs |-> Idle]

\* ---------------------------------------------------------------- activity feed
\* .limit(20) of both finds and activities.slice(0, 20)
FeedLimit == 20
\* Date.now() - 30 * 24 * 60 * 60 * 1000, with time counted in days
FeedWindowDays == 30

\* Model.find(...).sort({ key: -1 }).limit(n) over docs; documents with equal
\* keys come in the store's order, ascending or descending by _id
FindRecent(docs, key, ascending, n) ==
  LET before(d, e) ==
        \/ key[d] > key[e]
        \/ key[d] = key[e] /\ IF ascending THEN d._id < e._id ELSE d._id > e._id
      rank == [d \in docs |-> Cardinality({e \in docs : before(e, d)})]
      sorted == [i \in 1..Cardinality(docs) |-> CHOOSE d \in docs : rank[d] = i - 1]
  IN Limit(sorted, n)

\* the sort keys of the two finds
UpdatedAt(docs) == [d \in docs |-> d.updatedAt]
CreatedAt(docs) == [d \in docs |-> d.createdAt]

\* UserBook.find({ user: { $in: following }, updatedAt: { $gte } })
RecentUserBooksQuery(ubs, following, since) ==
  {ub \in ubs : Includes(following, ub.user) /\ ub.updatedAt >= since}

\* Review.find({ user: { $in: following }, status: 'approved', createdAt: { $gte } })
RecentReviewsQuery(revs, following, since) ==
  {r \in revs : /\ Includes(following, r.user)
                /\ r.status = "approved"
                /\ r.createdAt >= since}

ShelfActivity(userBook) ==
  [ type |-> "shelf_update", id |-> userBook._id, user |-> userBook.user,
    book |-> userBook.book, shelf |-> userBook.shelf,
    timestamp |-> userBook.updatedAt ]

ReviewActivity(review) ==
  [ type |-> "review", id |-> review._id, user |-> review.user,
    book |-> review.book, rating |-> review.rating,
    timestamp |-> review.createdAt ]

\* the activities as pushed, without activities.sort
ActivitiesAsPushed(activities) == activities

\* activities.sort((a, b) => new Date(b.timestamp) - new Date(a.timestamp)):
\* a stable sort, newest first
SortActivities(activities) ==
  LET n == Len(activities)
      rank == [i \in 1..n |->
                 Cardinality({j \in 1..n :
                    \/ activities[j].timestamp > activities[i].timestamp
                    \/ activities[j].timestamp = activities[i].timestamp /\ j < i})]
  IN [k \in 1..n |-> activities[CHOOSE i \in 1..n : rank[i] = k - 1]]

FeedResponse(status, u, now, queries, activities) ==
  [ op |-> "activityFeed", status |-> status, user |-> u, now |-> now,
    queries |-> queries, activities |-> activities ]

\* GET /users/activity-feed
GetActivityFeed(u, ascending) ==
  /\ clock' = clock + 1
  /\ UNCHANGED <<books, reviews, userBooks, users, genres, nextId, procs>>
  /\ LET following == users[u].following
     IN IF Len(following) = 0
        THEN last' = FeedResponse(200, u, clock, 0, <<>>)
        ELSE LET since == clock - FeedWindowDays
                 foundUserBooks == RecentUserBooksQuery(userBooks, following, since)
                 foundReviews == RecentReviewsQuery(reviews, following, since)
                 recentUserBooks ==
                   FindRecent(foundUserBooks, UpdatedAt(foundUserBooks),
                              ascending, FeedLimit)
                 recentReviews ==
                   FindRecent(foundReviews, CreatedAt(foundReviews),
                              ascending, FeedLimit)
                 activities ==
                   [i \in 1..Len(recentUserBooks) |-> ShelfActivity(recentUserBooks[i])]
                   \o [i \in 1..Len(recentReviews) |-> ReviewActivity(recentReviews[i])]
             IN last' = FeedResponse(200, u, clock, 2,
                                     Limit(SortActivities(activities), FeedLimit))

\* --- shelf entries and reviews the feed is computed over
\* the day of the feed request
FeedNow == 40
FeedBookIds == 1..13
\* the k-th shelf entry and the k-th review are of user FeedUser(k), book FeedBook(k)
FeedUser(k) == IF k % 2 = 1 THEN "u2" ELSE "u3"
FeedBook(k) == (k + 1) \div 2

\* How many shelf entries and reviews u2 and u3 have, how many days lie between
\* two of them, the age of the newest, and whom u1 follows.
FeedShapes ==
  [ shelves : {0, 5, 21, 26}, reviews : {0, 4, 21, 26},
    shelfStep : {1, 2}, reviewStep : {1, 2}, reviewAge : {0, 1},
    following : {<<>>, <<"u2">>, <<"u2", "u3">>} ]

\* timestamps: true adds updatedAt to a UserBook
WithUpdatedAt(userBook, at) == [updatedAt |-> at] @@ userBook

ShapeShelfEntries(s) ==
  { WithUpdatedAt(NewUserBook(k, FeedUser(k), FeedBook(k),
                              IF k % 3 = 0 THEN "read" ELSE "wantToRead", 0),
                  FeedNow - (k - 1) * s.shelfStep) : k \in 1..s.shelves }
  \cup { WithUpdatedAt(NewUserBook(99, "u1", 1, "read", 0), FeedNow) }

ShapeReviews(s) ==
  { [ _id |-> 100 + k, user |-> FeedUser(k), book |-> FeedBook(k),
      rating |-> 1 + (k % 5),
      status |-> IF k % 7 = 3 THEN DefaultReviewStatus ELSE "approved",
      createdAt |-> FeedNow - s.reviewAge - (k - 1) * s.reviewStep ] :
      k \in 1..s.reviews }

ShapeUsers(s) ==
  [u \in UserIds |->
     IF u = "u1" THEN [NewUser EXCEPT !.following = s.following]
     ELSE IF Includes(s.following, u) THEN [NewUser EXCEPT !.followers = <<"u1">>]
     ELSE NewUser]

InitFeed ==
  \E s \in FeedShapes :
    /\ books = [b \in FeedBookIds |-> NewBookOfGenre(101)]
    /\ genres = InitialGenres
    /\ userBooks = ShapeShelfEntries(s)
    /\ reviews = ShapeReviews(s)
    /\ users = ShapeUsers(s)
    /\ clock = FeedNow
    /\ nextId = 1
    /\ last = Response("none", 0)
    /\ procs = [p \in Procs |-> Idle]

\* ---------------------------------------------------------------- statistics
\* the literal 'Unknown' as a key of genreBreakdown
UnknownKey == <<"Unknown">>

\* populate('book', 'totalPages genre') of a shelf entry: the Book with the
\* selected fields; genre is not populated and stays the ObjectId of the Genre
PopulatedBook(bks, bookId) ==
  [_id |-> bookId, genre |-> [kind |-> "ObjectId", id |-> bks[bookId].genre]]

\* value.name || 'Unknown': only a Genre document has a name
NameOrUnknown(value) ==
  IF value.kind = "Genre" /\ value.name # <<>> THEN value.name ELSE UnknownKey

\* stats.genreBreakdown after the forEach over the entries
genreBreakdown(bks, entries) ==
  LET read == {ub \in entries : ub.shelf = "read"}
      genreName(ub) == NameOrUnknown(PopulatedBook(bks, ub.book).genre)
      keys == {genreName(ub) : ub \in read}
  IN [k \in keys |-> Cardinality({ub \in read : genreName(ub) = k})]

StatsResponse(status, u, breakdown) ==
  [op |-> "stats", status |-> status, user |-> u, genreBreakdown |-> breakdown]

\* GET /users/stats
GetStats(u) ==
  /\ clock' = clock + 1
  /\ UNCHANGED <<books, reviews, userBooks, users, genres, nextId, procs>>
  /\ LET entries == {ub \in userBooks : ub.user = u}
     IN IF \E ub \in entries : ub.shelf = "read" /\ ub.book \notin DOMAIN books
        THEN \* populate left book null: reading book.totalPages throws
             last' = StatsResponse(500, u, << >>)
        ELSE last' = StatsResponse(200, u, genreBreakdown(books, entries))

\* ---------------------------------------------------------------- specifications
Init ==
  /\ books = [b \in BookIds |-> NewBookOfGenre(InitialGenreOf[b])]
  /\ genres = InitialGenres
  /\ reviews = {}
  /\ userBooks = {}
  /\ clock = 0
  /\ nextId = 1
  /\ last = Response("none", 0)
  /\ users = [u \in UserIds |-> NewUser]
  /\ procs = [p \in Procs |-> Idle]

\* The ids a request path can carry: those of stored reviews and one of none.
ReviewIdInputs == {r._id : r \in reviews} \cup {0}

NextReview ==
  \/ \E u \in Readers, b \in BookIds, in \in ReviewInputs :
       clock < MaxReviewRequests /\ CreateReview(u, b, in)
  \/ \E id \in ReviewIdInputs, s \in StatusInputs :
       clock < MaxReviewRequests /\ UpdateReviewStatus(id, s)
  \/ \E id \in ReviewIdInputs : clock < MaxReviewRequests /\ DeleteReview(id)
  \/ \E b \in BookIds : clock < MaxReviewRequests /\ DeleteBook(b)

SpecReview == Init /\ [][NextReview]_vars

NextShelf ==
  \/ \E u \in Readers, b \in BookIds, shelf \in ShelfInputs :
       clock < MaxShelfRequests /\ SetShelf(u, b, shelf)
  \/ \E u \in Readers, b \in BookIds, in \in ProgressInputs :
       clock < MaxShelfRequests /\ UpdateProgress(u, b, in)
  \/ \E b \in BookIds : clock < MaxShelfRequests /\ DeleteBook(b)

SpecShelf == Init /\ [][NextShelf]_vars

NextFollow ==
  \E cur \in UserIds, tgt \in FollowInputs :
    clock < MaxFollowRequests /\ Follow(cur, tgt)

SpecFollow == Init /\ [][NextFollow]_vars

NextShelfSteps ==
  \/ \E p \in Procs, u \in Readers, b \in BookIds, shelf \in ShelfInputs :
       clock < MaxShelfInFlight /\ ShelfFindBook(p, u, b, shelf)
  \/ \E p \in Procs : ShelfFindEntry(p)
  \/ \E p \in Procs : ShelfSaveEntry(p)
  \/ \E p \in Procs : ShelfSaveBook(p)
  \/ \E p \in Procs, u \in Readers, b \in BookIds, in \in ProgressInputs :
       clock < MaxShelfInFlight /\ ProgressFindEntry(p, u, b, in)
  \/ \E p \in Procs : ProgressFindBook(p)
  \/ \E p \in Procs : ProgressSaveBook(p)
  \/ \E p \in Procs : ProgressSaveEntry(p)

SpecShelfSteps == Init /\ [][NextShelfSteps]_vars

NextFollowSteps ==
  \/ \E p \in Procs, cur \in UserIds, tgt \in FollowInputs :
       clock < MaxFollowInFlight /\ FollowFindTarget(p, cur, tgt)
  \/ \E p \in Procs : FollowFindCurrent(p)
  \/ \E p \in Procs : FollowSaveCurrent(p)
  \/ \E p \in Procs : FollowSaveTarget(p)
  \/ \E p \in Procs : FollowSaveFails(p)

SpecFollowSteps == Init /\ [][NextFollowSteps]_vars

NextCascade ==
  \/ \E u \in Readers, b \in BookIds, in \in ReviewInputs :
       clock < MaxCascadeRequests /\ CreateReview(u, b, in)
  \/ \E u \in Readers, b \in BookIds, shelf \in ShelfInputs :
       clock < MaxCascadeRequests /\ SetShelf(u, b, shelf)
  \/ \E b \in BookIds : clock < MaxCascadeRequests /\ DeleteBook(b)

SpecCascade == Init /\ [][NextCascade]_vars

\* The ids a genre request path can carry: those of stored genres and one of none.
GenreIdInputs == {g._id : g \in genres} \cup {0}

NextGenreSteps ==
  \/ \E p \in Procs, name \in GenreNameInputs :
       clock < MaxGenreInFlight /\ GenreCreateFind(p, name)
  \/ \E p \in Procs : GenreCreateSave(p)
  \/ \E p \in Procs, id \in GenreIdInputs, name \in GenreNameInputs :
       clock < MaxGenreInFlight /\ GenreUpdateFind(p, id, name)
  \/ \E p \in Procs : GenreUpdateSave(p)

SpecGenreSteps == Init /\ [][NextGenreSteps]_vars

\* The genre a book request can carry: a stored id, an id of none, or no genre.
BookGenreInputs == GenreIdInputs \cup {Undefined}

\* The ids a book request path can carry: those of stored books and one of none.
BookIdInputs == DOMAIN books \cup {"b0"}

NextCatalogSteps ==
  \/ \E p \in Procs, g \in BookGenreInputs :
       clock < MaxCatalogInFlight /\ BookCreateFindGenre(p, g)
  \/ \E p \in Procs, uploaded \in BOOLEAN : BookCreateUpload(p, uploaded)
  \/ \E p \in Procs : BookCreateSave(p)
  \/ \E p \in Procs, b \in BookIdInputs, g \in BookGenreInputs :
       clock < MaxCatalogInFlight /\ BookUpdateFind(p, b, g)
  \/ \E p \in Procs : BookUpdateFindGenre(p)
  \/ \E p \in Procs : BookUpdateSave(p)
  \/ \E p \in Procs, id \in GenreIdInputs :
       clock < MaxCatalogInFlight /\ GenreDeleteFind(p, id)
  \/ \E p \in Procs : GenreDeleteCount(p)
  \/ \E p \in Procs : GenreDeleteRemove(p)

SpecCatalogSteps == Init /\ [][NextCatalogSteps]_vars

NextReviewSteps ==
  \/ \E p \in Procs, u \in Readers, b \in BookIds, in \in ReviewInputs :
       clock < MaxReviewInFlight /\ ReviewFindBook(p, u, b, in)
  \/ \E p \in Procs : ReviewFindExisting(p)
  \/ \E p \in Procs : ReviewSave(p)

SpecReviewSteps == Init /\ [][NextReviewSteps]_vars

NextRecommend ==
  \E u \in Readers, ascending \in BOOLEAN :
    clock < MaxRecommendRequests /\ GetRecommendations(u, ascending)

SpecRecommend == InitRecommend /\ [][NextRecommend]_vars

NextFeed ==
  \E u \in UserIds, ascending \in BOOLEAN :
    clock < FeedNow + MaxFeedRequests /\ GetActivityFeed(u, ascending)

SpecFeed == InitFeed /\ [][NextFeed]_vars

NextReviewFaults ==
  \/ \E u \in Readers, b \in BookIds, in \in ReviewInputs :
       clock < MaxFaultRequests /\ CreateReview(u, b, in)
  \/ \E id \in ReviewIdInputs, s \in StatusInputs, fault \in Faults :
       clock < MaxFaultRequests /\ UpdateReviewStatusWithFault(id, s, fault)
  \/ \E id \in ReviewIdInputs, fault \in Faults :
       clock < MaxFaultRequests /\ DeleteReviewWithFault(id, fault)

SpecReviewFaults == Init /\ [][NextReviewFaults]_vars

NextStats ==
  \/ \E u \in Readers, b \in BookIds, shelf \in ShelfInputs :
       clock < MaxStatsRequests /\ SetShelf(u, b, shelf)
  \/ \E u \in Readers : clock < MaxStatsRequests /\ GetStats(u)

SpecStats == Init /\ [][NextStats]_vars

NextModeration ==
  \/ \E u \in Readers, b \in BookIds, in \in ReviewInputs :
       clock < MaxModerationRequests /\ CreateReview(u, b, in)
  \/ \E id \in ReviewIdInputs, s \in StatusInputs :
       clock < MaxModerationRequests /\ UpdateReviewStatus(id, s)
  \/ \E id \in ReviewIdInputs : clock < MaxModerationRequests /\ DeleteReview(id)

SpecModeration == Init /\ [][NextModeration]_vars

\* ---------------------------------------------------------------- C1
\* C1: after any sequence of completed review operations and book deletions,
\* every Book's ratingsCount equals the number of approved reviews referencing
\* it and its averageRating is their mean rounded to one decimal (0 when none).
IsMeanToOneDecimal(tenths, total, n) ==
  IF n = 0 THEN tenths = 0
  ELSE /\ 2 * (10 * total - tenths * n) <= n
       /\ 2 * (tenths * n - 10 * total) <= n

RatingMatchesApproved ==
  \A b \in DOMAIN books :
    LET found == ApprovedReviews(reviews, b) IN
    /\ books[b].ratingsCount = Cardinality(found)
    /\ IsMeanToOneDecimal(books[b].averageRating, SumRatings(found), Cardinality(found))

\* ---------------------------------------------------------------- C2
\* C2: whenever a setShelf request with target shelf read succeeds, on a new or
\* an existing entry, the resulting entry has progress.percentage = 100 and a
\* non-null finishedReading.
SetShelfReadCompletes ==
  (last.op = "setShelf" /\ last.status = 200 /\ last.in = "read") =>
    \A ub \in EntriesOf(userBooks, last.user, last.book) :
      ub.percentage = 100 /\ ub.finishedReading # Undefined

\* ---------------------------------------------------------------- C3
\* C3: every UserBook entry whose progress.percentage is 100 is on the read shelf.
FullPercentageImpliesRead ==
  \A ub \in userBooks : ub.percentage = 100 => ub.shelf = "read"

\* ---------------------------------------------------------------- C4
\* C4: every UserBook entry on the read shelf has finishedReading set.
ReadImpliesFinished ==
  \A ub \in userBooks : ub.shelf = "read" => ub.finishedReading # Undefined

\* An entry that was on another shelf (it was started earlier) has just been
\* moved to read, by setShelf or by a progress update.
ReadImpliesFinishedWitness ==
  /\ last.op \in {"setShelf", "updateProgress"}
  /\ last.status = 200
  /\ \E ub \in EntriesOf(userBooks, last.user, last.book) :
       /\ ub.shelf = "read"
       /\ ub.startedReading # Undefined
       /\ ub.finishedReading = clock - 1

\* ---------------------------------------------------------------- C5
\* C5: for every Book and each shelf, Book.shelvedCount[shelf] equals the number
\* of UserBook entries of that book on that shelf, after any sequence of
\* setShelf and updateProgress requests served one at a time.
EntriesOnShelf(b, shelf) == {ub \in userBooks : ub.book = b /\ ub.shelf = shelf}

ShelvedCountMatchesEntries ==
  \A b \in DOMAIN books, shelf \in Shelves :
    books[b].shelvedCount[shelf] = Cardinality(EntriesOnShelf(b, shelf))

\* ---------------------------------------------------------------- C9
\* C9: a progress update at 100 on an entry that is not on the read shelf moves
\* it to read, and a further progress update at 100 on that entry leaves its
\* shelf, its finishedReading and every Book.shelvedCount value unchanged.
IsFullProgress(r) ==
  r.op = "updateProgress" /\ r.status = 200 /\ r.in.percentage >= 100

ProgressAtFullMovesOnce ==
  [][ IsFullProgress(last') =>
        \A ub \in EntriesOf(userBooks, last'.user, last'.book) :
          \E nb \in EntriesOf(userBooks', last'.user, last'.book) :
            /\ nb._id = ub._id
            /\ nb.shelf = "read"
            /\ IF ub.shelf = "read"
               THEN /\ nb.finishedReading = ub.finishedReading
                    /\ \A b \in DOMAIN books :
                         books'[b].shelvedCount = books[b].shelvedCount
               ELSE /\ nb.finishedReading = clock
                    /\ books'[ub.book].shelvedCount.read =
                         books[ub.book].shelvedCount.read + 1 ]_vars

\* The third request is a progress update at 100 on an entry that the second
\* request, a progress update at 100, moved from wantToRead to read.
ProgressAtFullMovesOnceWitness ==
  /\ clock = 3
  /\ IsFullProgress(last)
  /\ \E ub \in EntriesOf(userBooks, last.user, last.book) :
       /\ ub.shelf = "read"
       /\ ub.startedReading = Undefined
       /\ ub.finishedReading = 1
       /\ books[ub.book].shelvedCount.wantToRead = 1
       /\ books[ub.book].shelvedCount.read = 1
       /\ \A other \in userBooks : other.book = ub.book => other = ub

\* ---------------------------------------------------------------- C8
\* C8: follow(A,B) is a toggle: from A not following B, one successful call puts
\* B in A.following and A in B.followers, a second successful call removes both
\* and restores both lists to what they were, and every other user's lists are
\* unchanged by either call.
FollowIsToggle ==
  \A a \in UserIds : \A b \in UserIds \ {a} :
    ~Includes(users[a].following, b) =>
      LET once == FollowToggle(users, a, b)
          twice == FollowToggle(once, a, b)
      IN /\ Includes(once[a].following, b)
         /\ Includes(once[b].followers, a)
         /\ once[a].followers = users[a].followers
         /\ once[b].following = users[b].following
         /\ \A c \in UserIds \ {a, b} : once[c] = users[c]
         /\ ~Includes(twice[a].following, b)
         /\ ~Includes(twice[b].followers, a)
         /\ twice = users

\* A user who follows somebody and is followed has just unfollowed a third user.
FollowIsToggleWitness ==
  /\ last.op = "follow" /\ last.status = 200 /\ ~last.isFollowing
  /\ users[last.user].following # <<>>
  /\ users[last.user].followers # <<>>
  /\ ~Includes(users[last.user].following, last.target)

\* ---------------------------------------------------------------- C6
\* C6: for every (user, book) pair there is at most one UserBook entry in every
\* reachable state, also when two setShelf requests of the same user and book
\* interleave between the existence check and the insert.
OneEntryPerUserAndBook ==
  \A u \in UserIds, b \in BookIds : Cardinality(EntriesOf(userBooks, u, b)) <= 1

\* A setShelf request that found no entry had its insert rejected, because an
\* interleaved request had inserted the entry of that pair first.
OneEntryPerUserAndBookWitness ==
  /\ last.op = "setShelf" /\ last.status = 500
  /\ Cardinality(EntriesOf(userBooks, last.user, last.book)) = 1

\* ---------------------------------------------------------------- C7
\* C7: in every reachable state the follow relation is symmetric: u2 is in
\* u1.following exactly when u1 is in u2.followers, also between the two saves
\* of a follow request, when the second save fails and when requests interleave.
FollowSymmetric ==
  \A u1 \in UserIds, u2 \in UserIds :
    Includes(users[u1].following, u2) <=> Includes(users[u2].followers, u1)

\* ---------------------------------------------------------------- C10
\* C10: in every reachable state the three Book.shelvedCount values of every
\* book are >= 0, whatever interleaving of setShelf and updateProgress requests
\* produced the state.
ShelvedCountNonNegative ==
  \A b \in DOMAIN books, shelf \in Shelves : books[b].shelvedCount[shelf] >= 0

\* A progress update at 100 moved an entry from wantToRead to read: the
\* currentlyReading counter it decrements was 0 and stayed 0.
ShelvedCountNonNegativeWitness ==
  /\ IsFullProgress(last)
  /\ \E ub \in EntriesOf(userBooks, last.user, last.book) :
       /\ ub.shelf = "read"
       /\ ub.startedReading = Undefined
       /\ books[ub.book].shelvedCount.wantToRead = 1
       /\ books[ub.book].shelvedCount.currentlyReading = 0
       /\ books[ub.book].shelvedCount.read = 1

\* ---------------------------------------------------------------- C11
\* C11: deleting a Book removes the Book with every UserBook and Review entry
\* that references it: once deleteBook has returned success, no UserBook or
\* Review entry references the deleted book.
References(b) ==
  {ub \in userBooks : ub.book = b} \cup {r \in reviews : r.book = b}

BookDeletionCascades ==
  /\ (last.op = "deleteBook" /\ last.status = 200) =>
        last.book \notin DOMAIN books /\ References(last.book) = {}
  /\ \A b \in BookIds \ DOMAIN books : References(b) = {}

\* Three documents were created, two reviews and one shelf entry of one book,
\* and the fourth request deleted that book and all three with it.
BookDeletionCascadesWitness ==
  /\ clock = 4 /\ nextId = 4
  /\ last.op = "deleteBook" /\ last.status = 200
  /\ reviews = {} /\ userBooks = {}
  /\ books[CHOOSE b \in DOMAIN books : TRUE].shelvedCount =
       [s \in Shelves |-> 0]

\* ---------------------------------------------------------------- C12
\* C12: in every reachable state, after any sequence or interleaving of genre
\* create and genre update requests, no two Genre records have names that are
\* equal ignoring case.
LowerName(name) == [i \in 1..Len(name) |-> Lower(name[i])]

GenreNamesUniqueIgnoringCase ==
  \A g \in genres : \A h \in genres :
    g._id # h._id => LowerName(g.name) # LowerName(h.name)

\* ---------------------------------------------------------------- C13
\* C13: a genre delete request is refused, leaving the Genre and all Books
\* unchanged, whenever at least one Book references that genre; consequently
\* every Book's genre reference points to an existing Genre in every reachable
\* state.
GenreDeleteRefusedWhileReferenced ==
  /\ (last.op = "deleteGenre" /\ last.status = 200) =>
        BooksWithGenre(books, last.genre) = 0
  /\ \A b \in DOMAIN books : GenreFound(genres, books[b].genre)

\* ---------------------------------------------------------------- C14
\* C14: for every (user, book) pair there is at most one Review entry in every
\* reachable state: a create-review request by a user who already has a review
\* of that book adds nothing, including when two create-review requests by the
\* same user for the same book interleave.
OneReviewPerUserAndBook ==
  \A r \in reviews : \A q \in reviews :
    (r.user = q.user /\ r.book = q.book) => r._id = q._id

\* ---------------------------------------------------------------- C15
\* C15: for every user and every catalog state, the recommendation list has
\* length at most 12, contains no book twice, and contains no book that is on
\* the user's read shelf.
ReadBooksOf(u) == {ub.book : ub \in ReadEntries(userBooks, u)}

RecommendationsBoundedAndFresh ==
  (last.op = "recommendations" /\ last.status = 200) =>
    LET list == last.recommendations
    IN /\ Len(list) <= 12
       /\ \A i \in 1..Len(list) : \A j \in 1..Len(list) : list[i] = list[j] => i = j
       /\ Range(list) \cap ReadBooksOf(last.user) = {}

\* A list of 12 cut from more unread books, the first part from the favourite
\* genres of a user with read books and the rest added after it.
RecommendationsBoundedAndFreshWitness ==
  /\ last.op = "recommendations" /\ last.status = 200
  /\ Len(last.recommendations) = 12
  /\ Len(last.personalized) \in 1..11
  /\ Cardinality(ReadBooksOf(last.user)) >= 3
  /\ Cardinality(DOMAIN books \ ReadBooksOf(last.user)) > 12

\* ---------------------------------------------------------------- C16
\* the number of read-shelf entries of u whose book has genre g
ReadGenreCount(u, g) ==
  Cardinality({ub \in ReadEntries(userBooks, u) : books[ub.book].genre = g})

ReadGenresOf(u) == {books[ub.book].genre : ub \in ReadEntries(userBooks, u)}

\* favorite is a choice of the (up to) 3 most frequent read genres of u
IsMostFrequent(u, favorite) ==
  /\ favorite \subseteq ReadGenresOf(u)
  /\ Cardinality(favorite) = Min(3, Cardinality(ReadGenresOf(u)))
  /\ \A g \in favorite : \A h \in ReadGenresOf(u) \ favorite :
       ReadGenreCount(u, g) >= ReadGenreCount(u, h)

\* a is rated strictly better than b: averageRating, then ratingsCount
RatedBetter(a, b) ==
  \/ books[a].averageRating > books[b].averageRating
  \/ /\ books[a].averageRating = books[b].averageRating
     /\ books[a].ratingsCount > books[b].ratingsCount

\* list holds the n best of the books in from (all of them when fewer), ordered
\* by averageRating then ratingsCount descending
IsBestOf(list, from, n) ==
  /\ Range(list) \subseteq from
  /\ Len(list) = Min(n, Cardinality(from))
  /\ \A i \in 1..Len(list) : \A j \in (i + 1)..Len(list) :
       list[i] # list[j] /\ ~RatedBetter(list[j], list[i])
  /\ \A b \in from \ Range(list) : \A i \in 1..Len(list) : ~RatedBetter(b, list[i])

\* the unread books of the favourite genres rated 3.5 (35 tenths) or more
FavoriteCandidates(u, favorite) ==
  {b \in DOMAIN books :
     /\ b \notin ReadBooksOf(u)
     /\ books[b].genre \in favorite
     /\ books[b].averageRating >= 35}

\* what follows the personalized part in the list
Padding == SubSeq(last.recommendations, Len(last.personalized) + 1,
                  Len(last.recommendations))

\* the list starts with the personalized part, which is empty for a user with
\* fewer than 3 read books and otherwise holds the best 12 unread books, rated
\* 3.5 or more, of the user's 3 most frequent read genres
PersonalizedPartFirst ==
  /\ SubSeq(last.recommendations, 1, Len(last.personalized)) = last.personalized
  /\ IF Cardinality(ReadBooksOf(last.user)) >= 3
     THEN /\ IsMostFrequent(last.user, last.favoriteGenres)
          /\ IsBestOf(last.personalized,
                      FavoriteCandidates(last.user, last.favoriteGenres), 12)
     ELSE last.personalized = <<>>

\* C16 as stated: for a user with at least 3 read books the list starts with
\* the unread books of the user's 3 most frequent read genres rated 3.5 or more
\* (ordered by averageRating then ratingsCount descending), and only when fewer
\* than 12 such books exist is it padded, after them, with books from other
\* genres; for a user with fewer than 3 read books the personalized part is
\* empty.
PaddedFromOtherGenres ==
  (last.op = "recommendations" /\ last.status = 200) =>
    /\ PersonalizedPartFirst
    /\ Padding # <<>> => Len(last.personalized) < 12
    /\ \A b \in Range(Padding) : books[b].genre \notin last.favoriteGenres

\* C16, amended: as above, but the padding holds the best unread books not
\* already in the list, whatever their genre: books of the favourite genres
\* rated below 3.5 are among them.
PaddedFromUnchosenBooks ==
  (last.op = "recommendations" /\ last.status = 200) =>
    /\ PersonalizedPartFirst
    /\ Padding # <<>> => Len(last.personalized) < 12
    /\ IsBestOf(Padding,
                DOMAIN books \ (ReadBooksOf(last.user) \cup Range(last.personalized)),
                12 - Len(last.personalized))

\* A user with at least 3 read books whose list is padded with a book of one
\* of their favourite genres.
PaddedFromUnchosenBooksWitness ==
  /\ last.op = "recommendations" /\ last.status = 200
  /\ Cardinality(ReadBooksOf(last.user)) >= 3
  /\ Len(last.personalized) \in 1..11
  /\ \E b \in Range(Padding) : books[b].genre \in last.favoriteGenres
  /\ \E b \in Range(Padding) : books[b].genre \notin last.favoriteGenres

\* ---------------------------------------------------------------- C17
\* the shelf updates and approved reviews of the users u follows, not older
\* than 30 days at the time now
QualifyingEvents(u, now) ==
  { ShelfActivity(ub) :
      ub \in {x \in userBooks : /\ Includes(users[u].following, x.user)
                                /\ now - x.updatedAt <= 30} }
  \cup
  { ReviewActivity(r) :
      r \in {x \in reviews : /\ Includes(users[u].following, x.user)
                             /\ x.status = "approved"
                             /\ now - x.createdAt <= 30} }

\* C17: the activity feed equals the first 20 elements of the merge of all
\* qualifying events sorted by timestamp descending: it is sorted descending,
\* has length min(20, number of qualifying events), and no omitted qualifying
\* event is strictly newer than a returned one, even though each source is
\* limited to 20 before merging; for a user following nobody it is empty and
\* no activity query is issued.
FeedIsNewestTwenty ==
  (last.op = "activityFeed" /\ last.status = 200) =>
    LET feed == last.activities
        events == QualifyingEvents(last.user, last.now)
    IN /\ Range(feed) \subseteq events
       /\ \A i \in 1..Len(feed) : \A j \in (i + 1)..Len(feed) :
            feed[i] # feed[j] /\ feed[i].timestamp >= feed[j].timestamp
       /\ Len(feed) = Min(20, Cardinality(events))
       /\ \A e \in events \ Range(feed) : \A i \in 1..Len(feed) :
            e.timestamp <= feed[i].timestamp
       /\ users[last.user].following = <<>> => feed = <<>> /\ last.queries = 0

\* A feed of 20 cut from more than 20 shelf updates and more than 20 approved
\* reviews, holding events of both kinds.
FeedIsNewestTwentyWitness ==
  /\ last.op = "activityFeed" /\ last.status = 200
  /\ Len(last.activities) = 20
  /\ LET events == QualifyingEvents(last.user, last.now)
     IN /\ Cardinality({e \in events : e.type = "shelf_update"}) > 20
        /\ Cardinality({e \in events : e.type = "review"}) > 20
  /\ \E i \in 1..20 : last.activities[i].type = "review"
  /\ \E i \in 1..20 : last.activities[i].type = "shelf_update"

\* ---------------------------------------------------------------- C18
\* the rating fields of every book are left as they were
RatingsKept ==
  /\ DOMAIN books' = DOMAIN books
  /\ \A b \in DOMAIN books :
       /\ books'[b].averageRating = books[b].averageRating
       /\ books'[b].ratingsCount = books[b].ratingsCount

\* C18: if the rating recompute fails (store error while reading reviews or
\* writing the Book) after a review has been approved or deleted, the failure
\* is swallowed: the review's status change or deletion stays persisted, the
\* request still reports success, and the Book's averageRating and
\* ratingsCount keep their previous values.
RecomputeFailureSwallowed ==
  [][ (last'.op \in {"updateReviewStatus", "deleteReview"}
         /\ clock' = clock + 1
         /\ last'.recompute = "failed") =>
        /\ last'.status = 200
        /\ RatingsKept
        /\ \E r \in reviews : r._id = last'.review
        /\ IF last'.op = "deleteReview"
           THEN \A r \in reviews' : r._id # last'.review
           ELSE \E r \in reviews' : r._id = last'.review /\ r.status = "approved"
     ]_vars

\* The only approved review of a book was deleted while the recompute failed:
\* the request reported success and the book still counts the review.
RecomputeFailureSwallowedWitness ==
  /\ last.op = "deleteReview" /\ last.status = 200 /\ last.recompute = "failed"
  /\ \A r \in reviews : r._id # last.review
  /\ \E b \in DOMAIN books :
       books[b].ratingsCount = 1 /\ ApprovedReviews(reviews, b) = {}

\* ---------------------------------------------------------------- C19
\* the name of the genre of book b, or 'Unknown' when the genre has no name
GenreKeyOf(b) ==
  LET named == {g \in genres : g._id = books[b].genre /\ g.name # <<>>}
  IN IF named = {} THEN UnknownKey ELSE (CHOOSE g \in named : TRUE).name

\* C19: in the reading statistics of a user, genreBreakdown maps each genre
\* name to the number of that user's read-shelf entries whose book has that
\* genre (counting only shelf=read entries), and uses the key "Unknown" only
\* for entries whose genre has no name.
GenreBreakdownByName ==
  (last.op = "stats" /\ last.status = 200) =>
    LET read == ReadEntries(userBooks, last.user)
        keys == {GenreKeyOf(ub.book) : ub \in read}
    IN last.genreBreakdown =
         [k \in keys |-> Cardinality({ub \in read : GenreKeyOf(ub.book) = k})]

\* ---------------------------------------------------------------- C20
\* process p has just saved the Book it had loaded
SavedBook(p) ==
  /\ procs[p].pc \in {"shelfSaveBook", "progressSaveBook"}
  /\ procs'[p] # procs[p]
  /\ procs[p].book \in DOMAIN books

\* C20: counter updates on a Book are unprotected read-modify-write: a save
\* stores the counters computed from the Book as it was loaded, whatever the
\* store holds by then, so that two interleaved shelf-changing requests by
\* different users on the same Book reach a state, with no request left in
\* flight, in which shelvedCount for some shelf differs from the number of
\* UserBook entries on that shelf (a lost update).
CounterSaveIsReadModifyWrite ==
  [][ \A p \in Procs : SavedBook(p) =>
        \A s \in Shelves :
          LET loaded == procs[p].bookLoaded.shelvedCount[s]
              local == procs[p].bookLocal.shelvedCount[s]
          IN local # loaded => books'[procs[p].book].shelvedCount[s] = local
    ]_vars

\* Two requests by u1 and u2 put the same Book on the same shelf; both have
\* answered, both entries are stored, and the counter of the shelf is 1.
LostUpdateWitness ==
  /\ clock = 2
  /\ \A p \in Procs : procs[p] = Idle
  /\ \E b \in DOMAIN books : \E s \in Shelves :
       /\ {ub.user : ub \in EntriesOnShelf(b, s)} = {"u1", "u2"}
       /\ Cardinality(userBooks) = 2
       /\ books[b].shelvedCount[s] = 1

\* ---------------------------------------------------------------- C21
\* the step is a create-review request or a request setting a review's status
\* to rejected
CreatesOrRejectsReview ==
  \/ \E u \in Readers, b \in BookIds, in \in ReviewInputs : CreateReview(u, b, in)
  \/ \E id \in ReviewIdInputs : UpdateReviewStatus(id, "rejected")

\* C21: creating a review and setting a review's status to rejected never
\* invoke the rating recompute: both leave every Book's averageRating and
\* ratingsCount unchanged, whatever the review's previous status was.
CreateAndRejectKeepRatings ==
  [][CreatesOrRejectsReview => RatingsKept]_vars

\* An approved review was rejected next to a newly created one: the book still
\* counts the rejected review and no approved review of it is left.
CreateAndRejectKeepRatingsWitness ==
  /\ last.op = "updateReviewStatus" /\ last.status = 200
  /\ \E r \in reviews :
       /\ r.status = "rejected"
       /\ books[r.book].ratingsCount = 1
       /\ books[r.book].averageRating = 10 * r.rating
       /\ ApprovedReviews(reviews, r.book) = {}
       /\ \E q \in reviews : q.book = r.book /\ q.status = "pending"

====
